---- MODULE Spec2Model ----
(***************************************************************************)
(* The three demonstrations of demo.ipynb as state machines:               *)
(*   - times_table() and the cell [f(5) for f in times_table()]            *)
(*   - add_item(item, items=[]) and the cell that calls it                 *)
(*   - something(), the identity / equality comparison of integers         *)
(* Lists and integers are objects: a variable holds a reference, and two   *)
(* references are identical when they denote the same object.              *)
(***************************************************************************)
EXTENDS Integers, Sequences, FiniteSets, TLC

\* ---------------------------------------------------------------- bounds
\* arguments passed to the closures: -MaxX..MaxX, and the cell's own 5
MaxX == 1
\* items passed to add_item by calls other than the usage cell: 1..MaxItem
MaxItem == 2
\* number of add_item calls made apart from the usage cell's five
MaxCalls == 3
\* number of list objects a caller creates to supply as items
MaxLists == 1

\* ---------------------------------------------------- program constants
\* range(10)
RangeN == 10
\* the argument of the cell [f(5) for f in times_table()]
DemoArg == 5
\* a = 10
SmallA == 10
\* c = 123456
BigC == 123456

\* the integers the interpreter keeps as preallocated, shared objects
SmallInts == (0 - 5) .. 256

Xs == ((0 - MaxX) .. MaxX) \cup {DemoArg}
Items == 1 .. MaxItem

\* the value of a name that is not bound yet
Unbound == 0 - 1
\* the reference that denotes no list
None == 0
\* the items argument of a call that omits it
NotGiven == 0
\* the list object created when def add_item(item, items=[]) is executed
DefaultList == 1

VARIABLES
    binding,      \* how multiplier gets i: "late" (the notebook) or "default_arg" (the fix)
    tpc,          \* position in the times_table cell
    i,            \* the loop variable of times_table's frame, shared by the closures
    table,        \* the list times_table builds
    x,            \* the argument the cell passes to every function
    results,      \* the list the comprehension builds
    constsMerged, \* whether equal literals of a function are one constant object
    spc,          \* position in something()
    local_a,      \* something's a
    local_c,      \* something's c
    out,          \* what something() has printed
    heap,         \* the list objects: heap[r] is the content of the list r
    v,            \* the notebook's global v
    a,            \* the notebook's global a
    call,         \* the arguments of the latest add_item call
    ret,          \* the reference the latest add_item call returned
    printed,      \* the text of the latest print of a list
    upc,          \* position in the usage cell of add_item
    defaultLog,   \* history: the items of the calls that omitted items, in call order
    aliased       \* history: some call was given the default list itself as items

closureVars == <<binding, tpc, i, table, x, results>>
identityVars == <<constsMerged, spc, local_a, local_c, out>>
itemVars == <<heap, v, a, call, ret, printed, upc, defaultLog, aliased>>
vars == <<binding, tpc, i, table, x, results, constsMerged, spc, local_a,
          local_c, out, heap, v, a, call, ret, printed, upc, defaultLog, aliased>>

\* ------------------------------------------------- late binding closures

\* def multiplier(x): return i * x  -- i is a free variable: the function
\* object keeps a reference to the frame's cell, not the value of i
MultiplierLate_ByValue(iv) == [late |-> FALSE, i |-> iv]
MultiplierLate(iv) == [late |-> TRUE, i |-> Unbound]

\* def multiplier(x, i=i): return i * x  -- the default argument is
\* evaluated when the def statement runs and is stored in the function
MultiplierDefaultArg(iv) == [late |-> FALSE, i |-> iv]

\* return i * x
Multiplier_Sum(iv, xv) == iv + xv
Multiplier(iv, xv) == iv * xv

\* a call f(x) of a function of the table: a late-bound i is looked up in
\* the cell now
CallMultiplier(f, cell, xv) == Multiplier(IF f.late THEN cell ELSE f.i, xv)

\* the kernel runs one cell at a time
ClosuresIdle == tpc \in {"idle", "done"}
IdentityIdle == spc \in {"idle", "done"}
ItemsIdle == upc \in {"idle", "done"}

\* times_table() is called: table = []
TimesTableCall ==
    /\ ClosuresIdle /\ IdentityIdle /\ ItemsIdle
    /\ tpc' = "loop"
    /\ table' = <<>>
    /\ i' = Unbound
    /\ results' = <<>>
    /\ UNCHANGED <<binding, x>>
    /\ UNCHANGED identityVars /\ UNCHANGED itemVars

\* one iteration of for i in range(10): bind i, define multiplier, append it
TimesTableLoop ==
    /\ tpc = "loop"
    /\ Len(table) < RangeN
    /\ i' = Len(table)
    /\ table' = Append(table, IF binding = "late" THEN MultiplierLate(i')
                                                  ELSE MultiplierDefaultArg(i'))
    /\ UNCHANGED <<binding, tpc, x, results>>
    /\ UNCHANGED identityVars /\ UNCHANGED itemVars

\* return table; the comprehension starts with its argument
TimesTableReturn ==
    /\ tpc = "loop"
    /\ Len(table) = RangeN
    /\ \E xv \in Xs : x' = xv
    /\ tpc' = "comp"
    /\ UNCHANGED <<binding, i, table, results>>
    /\ UNCHANGED identityVars /\ UNCHANGED itemVars

\* one step of [f(x) for f in table]
ComprehensionStep ==
    /\ tpc = "comp"
    /\ Len(results) < Len(table)
    /\ results' = Append(results, CallMultiplier(table[Len(results) + 1], i, x))
    /\ tpc' = IF Len(results') = Len(table) THEN "done" ELSE "comp"
    /\ UNCHANGED <<binding, i, table, x>>
    /\ UNCHANGED identityVars /\ UNCHANGED itemVars

\* ------------------------------------------------------- integer caching

\* the object an integer literal evaluates to at a place of something():
\* a small integer is the interpreter's shared object; another literal is
\* the function's constant, one object per value when the compiler merges
\* equal constants and one per occurrence when it does not
IntLiteral(n, site) ==
    IF n \in SmallInts \/ constsMerged
    THEN [val |-> n, id |-> 0]
    ELSE [val |-> n, id |-> site]

NoObject == [val |-> 0, id |-> Unbound]

\* p == q
Eq(p, q) == p.val = q.val
\* p is q
Is(p, q) == p = q

\* something() is called: a = 10
SomethingCall ==
    /\ ClosuresIdle /\ IdentityIdle /\ ItemsIdle
    /\ local_a' = IntLiteral(SmallA, 202)
    /\ local_c' = NoObject
    /\ out' = <<>>
    /\ spc' = "l204"
    /\ UNCHANGED constsMerged
    /\ UNCHANGED closureVars /\ UNCHANGED itemVars

\* print(a == 10)
SomethingEqA ==
    /\ spc = "l204"
    /\ out' = Append(out, Eq(local_a, IntLiteral(SmallA, 204)))
    /\ spc' = "l205"
    /\ UNCHANGED <<constsMerged, local_a, local_c>>
    /\ UNCHANGED closureVars /\ UNCHANGED itemVars

\* print(a is 10)
SomethingIsA ==
    /\ spc = "l205"
    /\ out' = Append(out, Is(local_a, IntLiteral(SmallA, 205)))
    /\ spc' = "l207"
    /\ UNCHANGED <<constsMerged, local_a, local_c>>
    /\ UNCHANGED closureVars /\ UNCHANGED itemVars

\* c = 123456
SomethingAssignC ==
    /\ spc = "l207"
    /\ local_c' = IntLiteral(BigC, 207)
    /\ spc' = "l209"
    /\ UNCHANGED <<constsMerged, local_a, out>>
    /\ UNCHANGED closureVars /\ UNCHANGED itemVars

\* print(c == 123456)
SomethingEqC ==
    /\ spc = "l209"
    /\ out' = Append(out, Eq(local_c, IntLiteral(BigC, 209)))
    /\ spc' = "l210"
    /\ UNCHANGED <<constsMerged, local_a, local_c>>
    /\ UNCHANGED closureVars /\ UNCHANGED itemVars

\* print(c is 123456), and the function returns
SomethingIsC ==
    /\ spc = "l210"
    /\ out' = Append(out, Is(local_c, IntLiteral(BigC, 210)))
    /\ spc' = "done"
    /\ local_a' = NoObject
    /\ local_c' = NoObject
    /\ UNCHANGED constsMerged
    /\ UNCHANGED closureVars /\ UNCHANGED itemVars

\* ---------------------------------------------- mutable default argument

RECURSIVE TotalLen(_)
TotalLen(h) == IF h = <<>> THEN 0 ELSE Len(Head(h)) + TotalLen(Tail(h))

\* the add_item calls the usage cell has made when it stands at pc
UsageCalls(pc) ==
    CASE pc = "idle" -> 0
      [] pc = "l163" -> 1
      [] pc = "l164" -> 2
      [] pc = "l165" -> 3
      [] pc \in {"l166", "l168"} -> 4
      [] OTHER -> 5

\* every call appends one element to one list, and a caller's new list starts empty
OtherCalls == TotalLen(heap) - UsageCalls(upc)

\* def add_item(item, items=[]): items.append(item); return items
\* h is the heap, arg the reference passed as items or NotGiven; the result
\* is the heap after the call and the reference returned
AddItem_Fresh(h, item, arg) ==
    IF arg = NotGiven
    THEN [heap |-> Append(h, <<item>>), ret |-> Len(h) + 1]
    ELSE [heap |-> [h EXCEPT ![arg] = Append(@, item)], ret |-> arg]
AddItem_Copy(h, item, arg) ==
    IF arg = NotGiven
    THEN [heap |-> [h EXCEPT ![DefaultList] = Append(@, item)], ret |-> DefaultList]
    ELSE [heap |-> Append(h, Append(h[arg], item)), ret |-> Len(h) + 1]
AddItem(h, item, arg) ==
    LET items == IF arg = NotGiven THEN DefaultList ELSE arg
    IN  [heap |-> [h EXCEPT ![items] = Append(@, item)], ret |-> items]

\* the effect of one call add_item(item) or add_item(item, arg) on the state
DoCall(h, item, arg) ==
    LET r == AddItem(h, item, arg)
    IN  /\ heap' = r.heap
        /\ ret' = r.ret
        /\ call' = [item |-> item, items |-> arg]
        /\ defaultLog' = IF arg = NotGiven THEN Append(defaultLog, item) ELSE defaultLog
        /\ aliased' = (aliased \/ arg = DefaultList)

\* the references a caller can hold: a list it created, or the default list
\* once a call without items has returned it
Known(r) == r # DefaultList \/ defaultLog # <<>>

\* add_item(item)
AddItemOmitted ==
    /\ ClosuresIdle /\ IdentityIdle /\ ItemsIdle
    /\ OtherCalls < MaxCalls
    /\ \E item \in Items : DoCall(heap, item, NotGiven)
    /\ UNCHANGED <<v, a, printed, upc>>
    /\ UNCHANGED closureVars /\ UNCHANGED identityVars

\* add_item(item, r) with a list r the caller already holds
AddItemSupplied ==
    /\ ClosuresIdle /\ IdentityIdle /\ ItemsIdle
    /\ OtherCalls < MaxCalls
    /\ \E item \in Items : \E r \in 1 .. Len(heap) :
          Known(r) /\ DoCall(heap, item, r)
    /\ UNCHANGED <<v, a, printed, upc>>
    /\ UNCHANGED closureVars /\ UNCHANGED identityVars

\* add_item(item, []) with a list the caller creates for the call
AddItemNewList ==
    /\ ClosuresIdle /\ IdentityIdle /\ ItemsIdle
    /\ OtherCalls < MaxCalls
    /\ Len(heap) < 1 + MaxLists
    /\ \E item \in Items : DoCall(Append(heap, <<>>), item, Len(heap) + 1)
    /\ UNCHANGED <<v, a, printed, upc>>
    /\ UNCHANGED closureVars /\ UNCHANGED identityVars

\* v = add_item(1)
UsageAssignV ==
    /\ ClosuresIdle /\ IdentityIdle
    /\ upc = "idle"
    /\ DoCall(heap, 1, NotGiven)
    /\ v' = ret'
    /\ upc' = "l163"
    /\ UNCHANGED <<a, printed>>
    /\ UNCHANGED closureVars /\ UNCHANGED identityVars

\* print(add_item(2)); print(add_item(3)); print(add_item(4))
UsageShowCall ==
    /\ upc \in {"l163", "l164", "l165"}
    /\ DoCall(heap, UsageCalls(upc) + 1, NotGiven)
    /\ printed' = heap'[ret']
    /\ upc' = CASE upc = "l163" -> "l164" [] upc = "l164" -> "l165" [] OTHER -> "l166"
    /\ UNCHANGED <<v, a>>
    /\ UNCHANGED closureVars /\ UNCHANGED identityVars

\* print(v)
UsageShowV ==
    /\ upc = "l166"
    /\ printed' = heap[v]
    /\ upc' = "l168"
    /\ UNCHANGED <<heap, v, a, call, ret, defaultLog, aliased>>
    /\ UNCHANGED closureVars /\ UNCHANGED identityVars

\* a = add_item(5)
UsageAssignA ==
    /\ upc = "l168"
    /\ DoCall(heap, 5, NotGiven)
    /\ a' = ret'
    /\ upc' = "done"
    /\ UNCHANGED <<v, printed>>
    /\ UNCHANGED closureVars /\ UNCHANGED identityVars

\* -------------------------------------------------------- specifications

\* the state after the cells that define the functions have run: the
\* default list exists and is empty, nothing has been called
Init ==
    /\ binding \in {"late", "default_arg"}
    /\ tpc = "idle"
    /\ i = Unbound
    /\ table = <<>>
    /\ x = DemoArg
    /\ results = <<>>
    /\ constsMerged \in BOOLEAN
    /\ spc = "idle"
    /\ local_a = NoObject
    /\ local_c = NoObject
    /\ out = <<>>
    /\ heap = <<<<>>>>
    /\ v = None
    /\ a = None
    /\ call = [item |-> 0, items |-> NotGiven]
    /\ ret = None
    /\ printed = <<>>
    /\ upc = "idle"
    /\ defaultLog = <<>>
    /\ aliased = FALSE

\* the cells of the closure and of the integer demonstrations
Next ==
    \/ TimesTableCall
    \/ TimesTableLoop
    \/ TimesTableReturn
    \/ ComprehensionStep
    \/ SomethingCall
    \/ SomethingEqA
    \/ SomethingIsA
    \/ SomethingAssignC
    \/ SomethingEqC
    \/ SomethingIsC

Spec == Init /\ [][Next]_vars

\* the calls of add_item
NextItems ==
    \/ AddItemOmitted
    \/ AddItemSupplied
    \/ AddItemNewList
    \/ UsageAssignV
    \/ UsageShowCall
    \/ UsageShowV
    \/ UsageAssignA

SpecItems == Init /\ [][NextItems]_vars

\* ------------------------------------------------------------ properties

\* the results the docstring of times_table announces for the argument xv
TimesOf(xv) == [k \in 1 .. RangeN |-> (k - 1) * xv]

AllSame(s) == \A j, k \in 1 .. Len(s) : s[j] = s[k]
AllDistinct(s) == \A j, k \in 1 .. Len(s) : j # k => s[j] # s[k]

\* C1: the functions returned by times_table(), called in list order with x,
\* yield 0 * x, 1 * x, ..., 9 * x; with x = 5 that is [0, 5, ..., 45]
C1_TimesTable ==
    (binding = "late" /\ tpc = "done") => results = TimesOf(x)

C5_Original ==
    (binding = "default_arg" /\ tpc \in {"comp", "done"}) =>
        /\ \A k \in 1 .. Len(results) : results[k] = (k - 1) * x
        /\ AllDistinct(results)

\* C5 (amended): with i captured by value at each iteration, the k-th closure
\* returns k * x, and for every x other than 0 no two closures return the
\* same value
C5_CapturedByValue ==
    (binding = "default_arg" /\ tpc \in {"comp", "done"}) =>
        /\ \A k \in 1 .. Len(results) : results[k] = (k - 1) * x
        /\ x # 0 => AllDistinct(results)

C5_Witness ==
    /\ binding = "default_arg"
    /\ tpc = "done"
    /\ x = DemoArg
    /\ results = <<0, 5, 10, 15, 20, 25, 30, 35, 40, 45>>

\* C6: in something(), a == 10 and a is 10 are both true, c == 123456 is
\* true and c is 123456 is false
C6_IdentityVsEquality ==
    spc = "done" => out = <<TRUE, TRUE, TRUE, FALSE>>

\* C3: a call of add_item that omits items returns a list that contains
\* exactly the one element item, whatever calls were made before
C3_NewListPerCall ==
    (call.items = NotGiven /\ ret # None) => heap[ret] = <<call.item>>

\* a step that is a call of add_item
IsCall == heap' # heap

From(s, n) == SubSeq(s, n, Len(s))

InPlace(h) ==
    /\ ret' = call'.items
    /\ heap'[ret'] = Append(h[call'.items], call'.item)
    /\ \A r \in 1 .. Len(heap) : r # call'.items => heap'[r] = heap[r]

SuppliedList == IF call'.items > Len(heap) THEN Append(heap, <<>>) ELSE heap

====
